---------------------------- MODULE Spec2Model ----------------------------
(***************************************************************************)
(* Model of the i18n pipeline of jazykove_mutace_es:                       *)
(*   translate_web.py  - classifier, translation cache, page orchestration *)
(*   clean_i18n_db.py  - the cleanup pass over the persisted payloads      *)
(*                                                                         *)
(* A text is a sequence of one-character strings, so that whitespace       *)
(* normalisation, lower-casing, substring search and the classifier's      *)
(* regular expressions are computed character by character.                *)
(***************************************************************************)
EXTENDS Integers, Sequences, FiniteSets, TLC

(***************************************************************************)
(* Characters (the ASCII part of the alphabet the sample texts use).       *)
(***************************************************************************)
UpperSeq ==
    << "A","B","C","D","E","F","G","H","I","J","K","L","M",
       "N","O","P","Q","R","S","T","U","V","W","X","Y","Z" >>

LowerSeq ==
    << "a","b","c","d","e","f","g","h","i","j","k","l","m",
       "n","o","p","q","r","s","t","u","v","w","x","y","z" >>

UpperCh == { UpperSeq[i] : i \in 1..Len(UpperSeq) }

LowerCh == { LowerSeq[i] : i \in 1..Len(LowerSeq) }

DigitCh == { "0","1","2","3","4","5","6","7","8","9" }

\* \s of the re module
SpaceCh == { " ", "\t", "\n", "\r" }

LetterCh == UpperCh \cup LowerCh

\* \w of the re module
WordCh == LetterCh \cup DigitCh \cup { "_" }

\* str.lower() on one character
LowerOf(c) ==
    IF c \in UpperCh
    THEN LowerSeq[CHOOSE i \in 1..Len(UpperSeq) : UpperSeq[i] = c]
    ELSE c

\* str.lower()
Lower(s) == [ i \in 1..Len(s) |-> LowerOf(s[i]) ]

\* `p in s` for strings
Contains(s, p) ==
    \E i \in 0..(Len(s) - Len(p)) :
        \A j \in 1..Len(p) : s[i + j] = p[j]

\* s[a..b] all drawn from the class cls (a > b: the empty slice)
AllIn(s, a, b, cls) == \A i \in a..b : s[i] \in cls

\* \b between positions i-1 and i of s (i in 1..Len(s)+1)
WordBoundary(s, i) ==
    LET before == i > 1 /\ s[i - 1] \in WordCh
        after  == i <= Len(s) /\ s[i] \in WordCh
    IN  before # after

(***************************************************************************)
(* Sample texts.                                                           *)
(***************************************************************************)
\* n copies of the text w, one after the other
RECURSIVE Rep(_, _)
Rep(w, n) == IF n = 0 THEN << >> ELSE w \o Rep(w, n - 1)

Kontakt == << "K","o","n","t","a","k","t" >>

\* the same label as the DOM holds it: padded, with a line break inside
KontaktRaw == << " ", "\n" >> \o Kontakt \o << " ", " " >>

TikTok == << "T","i","k","T","o","k" >>

Units256GB == << "2","5","6"," ","G","B" >>

IPhone15 == << "i","P","h","o","n","e"," ","1","5" >>

EmptyText == << >>

\* a paragraph longer than MAX_TEXT_LEN_TO_TRANSLATE and shorter than the
\* extractor's ceiling
LongText == Rep(<< "L","o","r","e","m"," ","i","p","s","u","m"," " >>, 27) \o << "e","n","d" >>

Contact == << "C","o","n","t","a","c","t" >>

ContactPadded == << " " >> \o Contact \o << "\n" >>

Kontakty == << "K","o","n","t","a","k","t","y" >>

\* the label "Domů", its last letter written in the alphabet above
Domu == << "D","o","m","u" >>

\* texts of the cleanup pass: a brand with a wrong and with a refused
\* translation, and sources and translations at the two length thresholds
TikTokApp ==
    << "T","i","k","T","o","k","-","o","v","a"," ","a","p","l","i","k","a",
       "c","i","a" >>

Apology ==
    << "I","'","m"," ","s","o","r","r","y",","," ","I"," ","n","e","e","d",
       " ","t","h","e"," ","s","p","e","c","i","f","i","c"," ","t","e","x",
       "t"," ","t","o"," ","t","r","a","n","s","l","a","t","e","." >>

Source20 ==
    << "O","p","r","a","v","a"," ","m","e","h","o"," ","t","e","l","e","f",
       "o","n","u" >>

Source21 ==
    << "O","p","r","a","v","a"," ","v","a","s","h","o"," ","t","e","l","e",
       "f","o","n","u" >>

Reply60 == Rep(<< "d","o","b","r","y"," " >>, 9) \o << "d","e","n","d","n","e" >>

Reply59 == Rep(<< "d","o","b","r","y"," " >>, 9) \o << "d","e","n","d","n" >>

\* Both scripts run their texts through the same two pure functions of the
\* text alone; what they answer on the sample texts is tabulated when a
\* script starts and read from the tables afterwards.
VARIABLES
    normal,         \* text -> normalize_spaces(text)
    verdict         \* normalised text -> is_translatable(text)

text_vars == << normal, verdict >>


(***************************************************************************)
(* normalize_spaces / norm: re.sub(r"\s+", " ", s).strip()                 *)
(* A character is kept when it is no whitespace; the first whitespace of   *)
(* a run is kept as one blank when text stands on both sides of the run.   *)
(***************************************************************************)
NormChar(s, i) ==
    IF s[i] \notin SpaceCh THEN << s[i] >>
    ELSE IF /\ i > 1
            /\ s[i - 1] \notin SpaceCh
            /\ \E j \in (i + 1)..Len(s) : s[j] \notin SpaceCh
         THEN << " " >>
         ELSE << >>

\* the normalised form of s[a..b], by halves
RECURSIVE NormRange(_, _, _)
NormRange(s, a, b) ==
    IF a > b THEN << >>
    ELSE IF a = b THEN NormChar(s, a)
    ELSE LET m == (a + b) \div 2
         IN  NormRange(s, a, m) \o NormRange(s, m + 1, b)

normalize_spaces(s) == normal[s]


(***************************************************************************)
(* translate_web.py: the translatability classifier.  Each regular         *)
(* expression is written out as the set of matches it accepts on a         *)
(* whitespace-normalised text.                                             *)
(***************************************************************************)
MAX_TEXT_LEN_TO_TRANSLATE == 320

MaxNodeTextLen == 900

\* the unit tokens of _units_re
UnitTokens ==
    { <<"g","b">>, <<"m","b">>, <<"t","b">>, <<"m","a","h">>, <<"w">>,
      <<"k","w">>, <<"v">>, <<"a">>, <<"m","m">>, <<"c","m">>, <<"m">>,
      <<"k","g">>, <<"g">>, <<"h","z">>, <<"k","h","z">>, <<"m","h","z">>,
      <<"g","h","z">>, <<"°","c">>, <<"d","p","i">>, <<"%">>, <<"x">> }

\* _units_re.match: ^\s*[\d\.,]+\s*(unit)\s*$ with re.I
units_re_match(t) ==
    \E p \in 1..Len(t) :
        /\ AllIn(t, 1, p, DigitCh \cup {".", ","})
        /\ \E q \in p..Len(t) :
              /\ AllIn(t, p + 1, q, SpaceCh)
              /\ \E r \in q..Len(t) :
                    /\ Lower(SubSeq(t, q + 1, r)) \in UnitTokens
                    /\ AllIn(t, r + 1, Len(t), SpaceCh)

\* _code_like_re.match: ^[A-Z0-9][A-Z0-9\-_./+ ]{1,}$
code_like_re_match(t) ==
    /\ Len(t) >= 2
    /\ t[1] \in UpperCh \cup DigitCh
    /\ AllIn(t, 2, Len(t), UpperCh \cup DigitCh \cup {"-", "_", ".", "/", "+", " "})

\* _only_symbols_digits_re.match: ^[\d\s\W_]+$
only_symbols_digits_re_match(t) ==
    /\ Len(t) >= 1
    /\ \A i \in 1..Len(t) :
          t[i] \in DigitCh \cup SpaceCh \cup {"_"} \/ t[i] \notin WordCh

\* _urlish_re.search: https?://|www\. with re.I
urlish_re_search(t) ==
    \/ Contains(Lower(t), <<"h","t","t","p",":","/","/">>)
    \/ Contains(Lower(t), <<"h","t","t","p","s",":","/","/">>)
    \/ Contains(Lower(t), <<"w","w","w",".">>)

EmailLocalCh == LetterCh \cup DigitCh \cup {".", "_", "%", "+", "-"}

EmailHostCh == LetterCh \cup DigitCh \cup {".", "-"}

\* _email_re.search: \b[a-z0-9._%+\-]+@[a-z0-9.\-]+\.[a-z]{2,}\b with re.I
\* (k: the "@", i: start of the local part, d: the last dot, e: the end)
email_re_search(t) ==
    \E k \in 1..Len(t) :
        /\ t[k] = "@"
        /\ \E i \in 1..(k - 1) :
              /\ WordBoundary(t, i)
              /\ AllIn(t, i, k - 1, EmailLocalCh)
        /\ \E d \in (k + 2)..Len(t) :
              /\ t[d] = "."
              /\ AllIn(t, k + 1, d - 1, EmailHostCh)
              /\ \E e \in (d + 2)..Len(t) :
                    /\ AllIn(t, d + 1, e, LetterCh)
                    /\ WordBoundary(t, e + 1)

\* _phone_re.search: (\+?\d[\d\s()\-]{7,}\d)
phone_re_search(t) ==
    \E i \in 1..Len(t) :
        /\ t[i] \in DigitCh
        /\ \E j \in (i + 8)..Len(t) :
              /\ t[j] \in DigitCh
              /\ AllIn(t, i + 1, j - 1, DigitCh \cup SpaceCh \cup {"(", ")", "-"})

\* _postal_re.search: \b\d{3}\s?\d{2}\b
postal_re_search(t) ==
    \E i \in 1..Len(t) :
        /\ t[i] \in DigitCh
        /\ WordBoundary(t, i)
        /\ \E gap \in 0..1 :
              /\ i + 4 + gap <= Len(t)
              /\ AllIn(t, i, i + 2, DigitCh)
              /\ AllIn(t, i + 3, i + 2 + gap, SpaceCh)
              /\ AllIn(t, i + 3 + gap, i + 4 + gap, DigitCh)
              /\ WordBoundary(t, i + 5 + gap)

\* \d{1,5} over t[a..b]
Digits1to5(t, a, b) ==
    /\ b - a + 1 \in 1..5
    /\ b <= Len(t)
    /\ AllIn(t, a, b, DigitCh)

\* _street_num_re.search: \b[^\d,]{3,}\s+\d{1,5}(?:/\d{1,5})?(?:\b|,)
\* (i..a: the [^\d,]{3,} part, a+1..s: the \s+ part, s+1..b: the digits)
street_num_re_search(t) ==
    \E s \in 1..Len(t) :
        /\ t[s] \in SpaceCh
        /\ \E b \in (s + 1)..(s + 5) :
              /\ Digits1to5(t, s + 1, b)
              /\ \/ WordBoundary(t, b + 1)
                 \/ b < Len(t) /\ t[b + 1] = ","
                 \/ \E c \in (b + 2)..(b + 6) :
                       /\ b < Len(t)
                       /\ t[b + 1] = "/"
                       /\ Digits1to5(t, b + 2, c)
                       /\ \/ WordBoundary(t, c + 1)
                          \/ c < Len(t) /\ t[c + 1] = ","
        /\ \E a \in 1..(s - 1) :
              /\ AllIn(t, a + 1, s, SpaceCh)
              /\ \E i \in 1..(a - 2) :
                    /\ WordBoundary(t, i)
                    /\ \A x \in i..a : t[x] \notin DigitCh \cup {","}

looks_like_contact_or_address(text) ==
    LET t == normalize_spaces(text)
    IN  IF Len(t) = 0 THEN FALSE
        ELSE IF email_re_search(t) THEN TRUE
        ELSE IF phone_re_search(t) THEN TRUE
        ELSE IF postal_re_search(t) THEN TRUE
        ELSE IF street_num_re_search(t) THEN TRUE
        ELSE FALSE

\* the tests of is_translatable on t = normalize_spaces(text)
Translatable(t) ==
        IF Len(t) = 0 THEN FALSE
        ELSE IF Len(t) <= 2 THEN FALSE
        ELSE IF only_symbols_digits_re_match(t) THEN FALSE
        ELSE IF units_re_match(t) THEN FALSE
        ELSE IF urlish_re_search(t) THEN FALSE
        ELSE IF looks_like_contact_or_address(t) THEN FALSE
        ELSE IF code_like_re_match(t) /\ ~(\E i \in 1..Len(t) : t[i] \in LowerCh)
             THEN FALSE
        ELSE TRUE

is_translatable(text) == verdict[normalize_spaces(text)]



(***************************************************************************)
(* translate_web.py: hashing, the Translator and the translation cache.    *)
(***************************************************************************)
TARGET_LANGS == << "sk", "en", "de" >>

DEFAULT_LANG == "cs"

\* sha(): taken as injective, the digest stands for the text it was made of
sha(text) == << "sha256", text >>

\* sha(...)[:n]
sha_prefix(text, n) == << "sha256", n, text >>

\* the default of translate_text's max_retries
max_retries == 3

\* What the Translator may answer with (resp.choices[0].message.content).
Responses == { EmptyText, ContactPadded }

\* One call of the Translator capability as translate_text sees it: the
\* number of attempts that raise before one answers, and that answer.
Outcomes == [ fails : 0..max_retries, content : Responses ]

\* translate_text giving the source text back when the retries are used up,
\* where the code raises
translate_text_swallow(text0, lang, o) ==
    LET text == normalize_spaces(text0)
    IN  IF Len(text) = 0 \/ Len(text) > MAX_TEXT_LEN_TO_TRANSLATE
        THEN [ ret |-> text, raised |-> FALSE, requests |-> 0, answered |-> FALSE ]
        ELSE IF o.fails < max_retries
        THEN [ ret |-> normalize_spaces(o.content), raised |-> FALSE,
               requests |-> o.fails + 1, answered |-> TRUE ]
        ELSE [ ret |-> text, raised |-> FALSE, requests |-> max_retries,
               answered |-> FALSE ]

\* translate_text(text, lang): [ret, raised, requests, answered], requests
\* being the number of client.chat.completions.create calls made and
\* answered whether one of them returned
translate_text(text0, lang, o) ==
    LET text == normalize_spaces(text0)
    IN  IF Len(text) = 0
        THEN [ ret |-> text, raised |-> FALSE, requests |-> 0, answered |-> FALSE ]
        ELSE IF Len(text) > MAX_TEXT_LEN_TO_TRANSLATE
        THEN [ ret |-> text, raised |-> FALSE, requests |-> 0, answered |-> FALSE ]
        ELSE IF o.fails < max_retries
        THEN [ ret |-> normalize_spaces(o.content), raised |-> FALSE,
               requests |-> o.fails + 1, answered |-> TRUE ]
        ELSE [ ret |-> << >>, raised |-> TRUE, requests |-> max_retries,
               answered |-> FALSE ]

\* entry.get("dst", {}).get(lang), << >> standing for None
DstGet(entry, lang) ==
    IF lang \in DOMAIN entry.dst THEN entry.dst[lang] ELSE << >>

\* the cache test looking the entry up under the shortened digest of the
\* node keys, where the code uses the full one
CacheHitShortKey(texts, t, lang) ==
    /\ sha_prefix(t, 10) \in DOMAIN texts
    /\ texts[sha_prefix(t, 10)].src = t
    /\ Len(DstGet(texts[sha_prefix(t, 10)], lang)) > 0

\* the `if entry and entry.get("src") == t and entry.get("dst", {}).get(lang)`
\* test of translate_cached
CacheHit(texts, t, lang) ==
    /\ sha(t) \in DOMAIN texts
    /\ texts[sha(t)].src = t
    /\ Len(DstGet(texts[sha(t)], lang)) > 0

\* f with key k set to v (dict assignment)
Put(f, k, v) == [ x \in DOMAIN f \cup {k} |-> IF x = k THEN v ELSE f[x] ]

\* translate_cached(text, lang, cache) on cache["texts"] = texts:
\* [texts, ret, raised, requests, answered]
translate_cached(text, lang, texts, o) ==
    LET t == normalize_spaces(text)
    IN  IF Len(t) = 0 \/ ~is_translatable(t)
        THEN [ texts |-> texts, ret |-> t, raised |-> FALSE, requests |-> 0,
               answered |-> FALSE ]
        ELSE IF CacheHit(texts, t, lang)
        THEN [ texts |-> texts, ret |-> texts[sha(t)].dst[lang], raised |-> FALSE,
               requests |-> 0, answered |-> FALSE ]
        ELSE LET r == translate_text(t, lang, o)
                 old == IF sha(t) \in DOMAIN texts
                        THEN texts[sha(t)]
                        ELSE [ src |-> t, dst |-> << >> ]
                 new == [ src |-> t, dst |-> Put(old.dst, lang, r.ret) ]
             IN  IF r.raised
                 THEN [ texts |-> texts, ret |-> << >>, raised |-> TRUE,
                        requests |-> r.requests, answered |-> FALSE ]
                 ELSE [ texts |-> Put(texts, sha(t), new), ret |-> r.ret,
                        raised |-> FALSE, requests |-> r.requests,
                        answered |-> r.answered ]


(***************************************************************************)
(* translate_web.py: extraction.  A root is given by its text runs in      *)
(* document order (the NavigableStrings of root.descendants), each with    *)
(* its parent element: el = id(parent), sel = build_selector(parent),      *)
(* skip = the parent is a mailto:/tel: link or one of skip_parents.        *)
(* A missing root (select_one gave None) is the empty sequence.            *)
(***************************************************************************)
Run(el, sel, txt, skip) == [ el |-> el, sel |-> sel, txt |-> txt, skip |-> skip ]

\* the `continue` tests of the loop of extract_textnodes_from_root
Qualifies(r) ==
    LET txt == normalize_spaces(r.txt)
    IN  /\ is_translatable(txt)
        /\ ~r.skip
        /\ Len(txt) <= MaxNodeTextLen
        /\ r.sel # ""

\* element_index_map: the elements of one selector are numbered in the
\* order of their first qualifying text run
ElementIndex(runs, i) ==
    LET same(j) == Qualifies(runs[j]) /\ runs[j].sel = runs[i].sel
        first   == CHOOSE j \in 1..i :
                      /\ same(j) /\ runs[j].el = runs[i].el
                      /\ \A k \in 1..(j - 1) : ~(same(k) /\ runs[k].el = runs[i].el)
    IN  Cardinality({ runs[j].el : j \in { k \in 1..(first - 1) : same(k) } })

\* text_index_counter: the qualifying runs of one element are numbered
TextIndex(runs, i) ==
    Cardinality({ j \in 1..(i - 1) :
                     /\ Qualifies(runs[j])
                     /\ runs[j].sel = runs[i].sel
                     /\ runs[j].el = runs[i].el })

extract_textnodes_from_root(runs, parent_selector, parent_id) ==
    LET idx  == [ i \in 1..Len(runs) |-> i ]
        kept == SelectSeq(idx, LAMBDA i : Qualifies(runs[i]))
    IN  [ k \in 1..Len(kept) |->
            [ mode      |-> "textnode",
              attr      |-> "",
              parent    |-> parent_selector,
              parentId  |-> parent_id,
              selector  |-> runs[kept[k]].sel,
              index     |-> ElementIndex(runs, kept[k]),
              textIndex |-> TextIndex(runs, kept[k]),
              source    |-> normalize_spaces(runs[kept[k]].txt) ] ]

\* extract_head_nodes: doc.title is the text of the title element (empty:
\* no title element), doc.title_id whether it is title#snippet--title
extract_head_nodes(doc) ==
    LET src == normalize_spaces(doc.title)
    IN  IF is_translatable(src)
        THEN << [ mode      |-> "text",
                  attr      |-> "",
                  parent    |-> "head",
                  parentId  |-> "",
                  selector  |-> IF doc.title_id THEN "title#snippet--title"
                                                ELSE "head > title",
                  index     |-> 0,
                  textIndex |-> 0,
                  source    |-> src ] >>
        ELSE << >>

extract_global_nodes_from_html(doc) ==
    extract_textnodes_from_root(doc.nav, ".component--core-navigation", "")
    \o extract_textnodes_from_root(doc.submenu, ".submenu", "")
    \o extract_textnodes_from_root(doc.footer, ".component--core-footer", "")

\* doc.content: the runs under pick_content_root, doc.content_pid:
\* nearest_parent_id of that root
extract_page_nodes_from_html(doc) ==
    extract_head_nodes(doc)
    \o extract_textnodes_from_root(doc.content, "", doc.content_pid)

\* a key made of the scope, the selector and the text alone
make_node_key_by_selector(scope_id, n) ==
    LET ident == << scope_id, n.mode, n.attr, n.parentId, n.parent, n.selector >>
    IN  << scope_id, sha_prefix(ident, 10), sha_prefix(n.source, 10) >>

make_node_key(scope_id, n) ==
    LET ident == << scope_id, n.mode, n.attr, n.parentId, n.parent,
                    n.selector, n.index, n.textIndex >>
    IN  << scope_id, sha_prefix(ident, 10), sha_prefix(n.source, 10) >>

\* the dict appended to `out` by build_nodes_with_translations
BuiltNode(scope_id, n, dst_map) ==
    [ key       |-> make_node_key(scope_id, n),
      parentId  |-> n.parentId,
      parent    |-> n.parent,
      selector  |-> n.selector,
      index     |-> n.index,
      textIndex |-> n.textIndex,
      mode      |-> n.mode,
      attr      |-> n.attr,
      source    |-> n.source,
      dst       |-> dst_map ]

\* f"{n['key']}|{n['selector']}|{n['index']}|{n['textIndex']}|{n['source']}":
\* the characters of the line, the key, the selector and the two numbers
\* each written as one token and the source character by character, so
\* that a "|" of the source is a "|" of the line
Line(n) ==
    << ToString(n.key), "|", n.selector, "|", ToString(n.index), "|",
       ToString(n.textIndex), "|" >> \o n.source

\* "||".join(...) of the lines of the nodes from the i-th on
RECURSIVE JoinFrom(_, _)
JoinFrom(nodes, i) ==
    IF i > Len(nodes) THEN << >>
    ELSE IF i = Len(nodes) THEN Line(nodes[i])
    ELSE Line(nodes[i]) \o << "|", "|" >> \o JoinFrom(nodes, i + 1)

\* a fingerprint that leaves the key out of the line
payload_hash_without_key(nodes) ==
    sha(JoinFrom([ i \in 1..Len(nodes) |-> [ nodes[i] EXCEPT !.key = "" ] ], 1))

\* the "hash" member of a page or global record
payload_hash(nodes) == sha(JoinFrom(nodes, 1))

\* the record main() stores for the global chrome and, in legacy_db, for a page
Payload(nodes) == [ hash |-> payload_hash(nodes), nodes |-> nodes ]

\* page_id(url)
page_id(url) == sha_prefix(url, 12)

\* the node extract_textnodes_from_root makes of the second list item of
\* the content root #snippet--content when that item reads Kontakt
SecondItem ==
    [ mode |-> "textnode", attr |-> "", parent |-> "",
      parentId |-> "snippet--content", selector |-> "li", index |-> 1,
      textIndex |-> 0, source |-> Kontakt ]

\* a text that reads Domů and then, after "||", what the fingerprint line
\* of that second item on the page of URL 1 reads
Spelled == Domu \o << "|", "|" >> \o Line(BuiltNode(page_id(1), SecondItem, << >>))

SampleTexts ==
    { Kontakt, KontaktRaw, TikTok, Units256GB, IPhone15, EmptyText, LongText,
      Contact, ContactPadded, Kontakty, Source20, Source21, Domu, Spelled }

\* the two tables, filled by the functions themselves
Tabulated ==
    /\ normal = [ t \in SampleTexts |-> NormRange(t, 1, Len(t)) ]
    /\ verdict = [ t \in { normal[x] : x \in SampleTexts } |-> Translatable(t) ]


\* build_nodes_with_translations run to its end with every Translator call
\* answered by o, from node i and language l on: [out, texts, answered],
\* answered being acc and the (text, lang) pairs the Translator answered
RECURSIVE BuildFrom(_, _, _, _, _, _, _, _, _)
BuildFrom(nodes_raw, scope_id, texts, o, i, l, dst_map, out, acc) ==
    IF i > Len(nodes_raw) THEN [ out |-> out, texts |-> texts, answered |-> acc ]
    ELSE IF l > Len(TARGET_LANGS)
    THEN BuildFrom(nodes_raw, scope_id, texts, o, i + 1, 1, << >>,
                   Append(out, BuiltNode(scope_id, nodes_raw[i], dst_map)), acc)
    ELSE IF TARGET_LANGS[l] = DEFAULT_LANG
    THEN BuildFrom(nodes_raw, scope_id, texts, o, i, l + 1, dst_map, out, acc)
    ELSE LET p == << normalize_spaces(nodes_raw[i].source), TARGET_LANGS[l] >>
         IN  CHOOSE built \in
               { BuildFrom(nodes_raw, scope_id, r.texts, o, i, l + 1, r.dst_map,
                           out, r.acc) :
                   r \in { [ texts   |-> c.texts,
                             dst_map |-> Put(dst_map, TARGET_LANGS[l], c.ret),
                             acc     |-> IF c.answered THEN acc \cup {p} ELSE acc ] :
                           c \in { translate_cached(nodes_raw[i].source,
                                                    TARGET_LANGS[l], texts, o) } } } :
               TRUE

build_nodes_with_translations(nodes_raw, texts, scope_id, o) ==
    BuildFrom(nodes_raw, scope_id, texts, o, 1, 1, << >>, << >>, {})

(***************************************************************************)
(* The site: what a fetch of a URL may return.                             *)
(***************************************************************************)
\* the number of URLs main() walks (TEST_URLS)
NumPages == 2

Urls == 1..NumPages

\* the default of fetch_url_with_retry's retries
retries == 5

DocA ==
    [ title       |-> EmptyText,
      title_id    |-> FALSE,
      nav         |-> << Run(1, "a.nav-link", KontaktRaw, FALSE) >>,
      submenu     |-> << >>,
      footer      |-> << Run(2, "span", Units256GB, FALSE) >>,
      content     |-> << Run(1, "h1", Kontakt, FALSE),
                         Run(2, "p", LongText, FALSE) >>,
      content_pid |-> "snippet--content" ]

DocB ==
    [ title       |-> Kontakt,
      title_id    |-> TRUE,
      nav         |-> << >>,
      submenu     |-> << >>,
      footer      |-> << Run(1, "a", Kontakt, TRUE) >>,
      content     |-> << Run(1, "li", IPhone15, FALSE),
                         Run(2, "a", Kontakt, TRUE),
                         Run(3, "li", KontaktRaw, FALSE) >>,
      content_pid |-> "" ]

Docs == { DocA, DocB }

\* a page whose content holds the fragments Domů, Kontakt, Domů in three
\* list items, and Domů once more in the navigation
DocHome ==
    [ title       |-> EmptyText,
      title_id    |-> FALSE,
      nav         |-> << Run(1, "a.nav-link", Domu, FALSE) >>,
      submenu     |-> << >>,
      footer      |-> << >>,
      content     |-> << Run(1, "li", Domu, FALSE),
                         Run(2, "li", Kontakt, FALSE),
                         Run(3, "li", Domu, FALSE) >>,
      content_pid |-> "snippet--content" ]

\* a page that holds Domů twice in one paragraph, around a line break, and
\* as its title
DocTwice ==
    [ title       |-> Domu,
      title_id    |-> FALSE,
      nav         |-> << >>,
      submenu     |-> << >>,
      footer      |-> << >>,
      content     |-> << Run(1, "p", Domu, FALSE),
                         Run(1, "p", Domu, FALSE) >>,
      content_pid |-> "" ]

KeyDocs == { DocHome, DocTwice }

\* a page without a text to translate
DocBlank ==
    [ title       |-> EmptyText,
      title_id    |-> FALSE,
      nav         |-> << >>,
      submenu     |-> << >>,
      footer      |-> << Run(1, "span", Units256GB, FALSE) >>,
      content     |-> << >>,
      content_pid |-> "" ]

\* One call of fetch_url_with_retry as main() sees it: the number of
\* attempts that do not answer 200 before one does, and the page it gives.
FetchOutcomes == [ fails : 0..retries, doc : Docs ]

\* fetch_url_with_retry(url): [raised, doc, requests]
fetch_url_with_retry(o) ==
    IF o.fails < retries
    THEN [ raised |-> FALSE, doc |-> o.doc, requests |-> o.fails + 1 ]
    ELSE [ raised |-> TRUE, doc |-> o.doc, requests |-> retries ]


(***************************************************************************)
(* clean_i18n_db.py: the cleanup pass.                                     *)
(***************************************************************************)
NEVER_TRANSLATE_EXACT ==
    { << "F","a","c","e","b","o","o","k" >>,
      << "Y","o","u","T","u","b","e" >>,
      << "I","n","s","t","a","g","r","a","m" >>,
      << "T","i","k","T","o","k" >>,
      << "S","p","o","t","i","f","y" >>,
      << "E","-","s","h","o","p" >>,
      << "S","e","r","v","i","s" >> }

BAD_PHRASES ==
    << << "e","s"," ","t","u","t"," ","m","i","r"," ","l","e","i","d" >>,
       << "i","c","h"," ","b","e","n","ö","t","i","g","e"," ","d","e","n",
          " ","s","p","e","z","i","f","i","s","c","h","e","n"," ","t","e",
          "x","t" >>,
       << "b","i","t","t","e"," ","g","e","b","e","n"," ","s","i","e"," ",
          "d","e","n"," ","t","e","x","t"," ","a","n" >>,
       << "i","'","m"," ","s","o","r","r","y" >>,
       << "i"," ","a","m"," ","s","o","r","r","y" >>,
       << "p","l","e","a","s","e"," ","p","r","o","v","i","d","e"," ","t",
          "h","e"," ","t","e","x","t" >>,
       << "a","s"," ","a","n"," ","a","i" >> >>

MAX_SRC_LEN_FOR_SANITY == 20

MIN_DST_LEN_SUSPICIOUS == 60

\* norm(s): re.sub(r"\s+", " ", s).strip()
norm(s) == NormRange(s, 1, Len(s))

\* looks_bad with the suspicion threshold exclusive
looks_bad_strict(dst, src) ==
    IF Len(dst) = 0 THEN FALSE
    ELSE IF \E i \in 1..Len(BAD_PHRASES) : Contains(Lower(dst), BAD_PHRASES[i])
    THEN TRUE
    ELSE IF /\ Len(norm(src)) <= MAX_SRC_LEN_FOR_SANITY
            /\ Len(norm(dst)) > MIN_DST_LEN_SUSPICIOUS
    THEN TRUE
    ELSE FALSE

looks_bad(dst, src) ==
    IF Len(dst) = 0 THEN FALSE
    ELSE IF \E i \in 1..Len(BAD_PHRASES) : Contains(Lower(dst), BAD_PHRASES[i])
    THEN TRUE
    ELSE IF /\ Len(norm(src)) <= MAX_SRC_LEN_FOR_SANITY
            /\ Len(norm(dst)) >= MIN_DST_LEN_SUSPICIOUS
    THEN TRUE
    ELSE FALSE

\* del f[k]
Del(f, k) == [ x \in DOMAIN f \ {k} |-> f[x] ]

\* clean_dst_map with the removal of bad output tried before the brand rule
RECURSIVE clean_dst_map_bad_first(_, _)
clean_dst_map_bad_first(src, dst_map) ==
    IF DOMAIN dst_map = {} THEN [ dst_map |-> dst_map, removed |-> 0, resets |-> 0 ]
    ELSE LET lang  == CHOOSE l \in DOMAIN dst_map : TRUE
             src_n == norm(src)
             dst   == norm(dst_map[lang])
             rest  == clean_dst_map_bad_first(src, Del(dst_map, lang))
         IN  IF looks_bad(dst, src_n)
             THEN [ rest EXCEPT !.removed = @ + 1 ]
             ELSE IF src_n \in NEVER_TRANSLATE_EXACT /\ Len(dst) > 0 /\ dst # src_n
             THEN [ rest EXCEPT !.dst_map = Put(@, lang, src_n), !.resets = @ + 1 ]
             ELSE [ rest EXCEPT !.dst_map = Put(@, lang, dst_map[lang]) ]

\* clean_dst_map with the brand rule lacking its `dst != src_n` test
RECURSIVE clean_dst_map_reset_always(_, _)
clean_dst_map_reset_always(src, dst_map) ==
    IF DOMAIN dst_map = {} THEN [ dst_map |-> dst_map, removed |-> 0, resets |-> 0 ]
    ELSE LET lang  == CHOOSE l \in DOMAIN dst_map : TRUE
             src_n == norm(src)
             dst   == norm(dst_map[lang])
             rest  == clean_dst_map_reset_always(src, Del(dst_map, lang))
         IN  IF src_n \in NEVER_TRANSLATE_EXACT /\ Len(dst) > 0
             THEN [ rest EXCEPT !.dst_map = Put(@, lang, src_n), !.resets = @ + 1 ]
             ELSE IF looks_bad(dst, src_n)
             THEN [ rest EXCEPT !.removed = @ + 1 ]
             ELSE [ rest EXCEPT !.dst_map = Put(@, lang, dst_map[lang]) ]

\* clean_dst_map(src, dst_map): [dst_map, removed, resets], dst_map being
\* the dict as the function leaves it.  `for lang in list(dst_map.keys())`
\* is one language and then the others; no turn of the loop reads what
\* another wrote.
RECURSIVE clean_dst_map(_, _)
clean_dst_map(src, dst_map) ==
    IF DOMAIN dst_map = {} THEN [ dst_map |-> dst_map, removed |-> 0, resets |-> 0 ]
    ELSE LET lang  == CHOOSE l \in DOMAIN dst_map : TRUE
             src_n == norm(src)
             dst   == norm(dst_map[lang])
             rest  == clean_dst_map(src, Del(dst_map, lang))
         IN  IF src_n \in NEVER_TRANSLATE_EXACT /\ Len(dst) > 0 /\ dst # src_n
             THEN [ rest EXCEPT !.dst_map = Put(@, lang, src_n), !.resets = @ + 1 ]
             ELSE IF looks_bad(dst, src_n)
             THEN [ rest EXCEPT !.removed = @ + 1 ]
             ELSE [ rest EXCEPT !.dst_map = Put(@, lang, dst_map[lang]) ]

\* clean_nodes_payload on the node list: [nodes, removed, resets]
RECURSIVE CleanNodes(_)
CleanNodes(nodes) ==
    IF Len(nodes) = 0 THEN [ nodes |-> << >>, removed |-> 0, resets |-> 0 ]
    ELSE LET node == Head(nodes)
             c    == clean_dst_map(node.source, node.dst)
             rest == CleanNodes(Tail(nodes))
         IN  [ nodes   |-> << [ node EXCEPT !.dst = c.dst_map ] >> \o rest.nodes,
               removed |-> c.removed + rest.removed,
               resets  |-> c.resets + rest.resets ]

\* clean_nodes_payload(payload): [payload, removed, resets]
clean_nodes_payload(payload) ==
    LET c == CleanNodes(payload.nodes)
    IN  [ payload |-> [ payload EXCEPT !.nodes = c.nodes ],
          removed |-> c.removed,
          resets  |-> c.resets ]

\* step 1 of clean_legacy_db on the entries under keys: [texts, removed, resets]
RECURSIVE CleanTexts(_, _)
CleanTexts(texts, keys) ==
    IF keys = {} THEN [ texts |-> texts, removed |-> 0, resets |-> 0 ]
    ELSE LET key  == CHOOSE k \in keys : TRUE
             c    == clean_dst_map(texts[key].src, texts[key].dst)
             rest == CleanTexts(texts, keys \ {key})
         IN  [ texts   |-> [ rest.texts EXCEPT ![key].dst = c.dst_map ],
               removed |-> c.removed + rest.removed,
               resets  |-> c.resets + rest.resets ]

\* step 2 of clean_legacy_db on the pages under keys: [pages, removed, resets]
RECURSIVE CleanPageRecords(_, _)
CleanPageRecords(pages, keys) ==
    IF keys = {} THEN [ pages |-> pages, removed |-> 0, resets |-> 0 ]
    ELSE LET key  == CHOOSE k \in keys : TRUE
             c    == clean_nodes_payload(pages[key])
             rest == CleanPageRecords(pages, keys \ {key})
         IN  [ pages   |-> [ rest.pages EXCEPT ![key] = c.payload ],
               removed |-> c.removed + rest.removed,
               resets  |-> c.resets + rest.resets ]

\* clean_legacy_db without its third step, the "global" record
clean_legacy_db_skip_global(db) ==
    LET t == CleanTexts(db.texts, DOMAIN db.texts)
        p == CleanPageRecords(db.pages, DOMAIN db.pages)
    IN  [ db |-> [ db EXCEPT !.texts = t.texts, !.pages = p.pages ],
          removed_text_entries      |-> t.removed,
          removed_page_node_entries |-> p.removed,
          forced_resets             |-> t.resets + p.resets ]

\* clean_legacy_db(db): [db, removed_text_entries,
\* removed_page_node_entries, forced_resets]
clean_legacy_db(db) ==
    LET t == CleanTexts(db.texts, DOMAIN db.texts)
        p == CleanPageRecords(db.pages, DOMAIN db.pages)
        g == clean_nodes_payload(db.global)
    IN  [ db |-> [ db EXCEPT !.texts = t.texts, !.pages = p.pages,
                             !.global = g.payload ],
          removed_text_entries      |-> t.removed,
          removed_page_node_entries |-> p.removed + g.removed,
          forced_resets             |-> t.resets + p.resets + g.resets ]


(***************************************************************************)
(* translate_web.py: main().  The files are the persisted state; the rest  *)
(* is the memory of one run.  Time stamps (updated_at) are left out.       *)
(***************************************************************************)
VARIABLES
    legacy_file,    \* LEGACY_DB: [shape, texts, pages, global]
    global_file,    \* GLOBAL_JSON: [exists, payload]
    page_files,     \* PAGES_DIR: page id -> page payload
    index_file,     \* INDEX_JSON: [exists, pages]
    pc,             \* where main() stands
    cache_is_dict,  \* whether cache["texts"] is a dict
    texts,          \* cache["texts"] (when it is a dict)
    global_payload, \* global_payload of main()
    legacy_pages,   \* legacy_db["pages"]
    index_pages,    \* index_payload["pages"]
    url_i,          \* position of `for url in urls`
    scope,          \* scope_id of the running build_nodes_with_translations
    nodes_raw,      \* its nodes_raw
    node_i,         \* position of `for n in nodes_raw`
    lang_i,         \* position of `for lang in TARGET_LANGS`
    dst_map,        \* dst_map of the node being built
    out,            \* out of build_nodes_with_translations
    last,           \* the last translate_cached call: its arguments, what it
                    \* returned and whether it asked the Translator
    requests,       \* Translator requests made per (text, lang) in this run
    answered,       \* the (text, lang) pairs a Translator call succeeded for
                    \* in the life of the loaded store
    failure,        \* what ended the run, if an exception did
    matched,        \* URLs fetched with a fingerprint equal to the stored one
    worked,         \* URLs translate_cached was called for in this run
    report,         \* the counters of clean_i18n_db.py's main()
    pass,           \* which run of clean_i18n_db.py this is, 0 before the first
    before,         \* the files as each run of clean_i18n_db.py found them
    print_stored,   \* the content a fingerprint was stored for: [runs, pid]
    print_fresh,    \* the content as a later fetch finds it: [runs, pid]
    print_hashes,   \* the "hash" main() makes of the two: [stored, fresh]
    retry_call,     \* a call of fetch_url_with_retry or translate_text, with
                    \* what each attempt will be answered: [fn, answers]
    retry_sent,     \* the requests the call has made
    retry_waits,    \* the time.sleep after each attempt, in tenths of a second
    retry_end,      \* "running", "returned" or "raised"
    retry_ret       \* the attempt whose answer the call returned, 0 if none

run_vars == << pc, cache_is_dict, texts, global_payload, legacy_pages, index_pages,
               url_i, scope, nodes_raw, node_i, lang_i, dst_map, out >>

file_vars == << legacy_file, global_file, page_files, index_file >>

hist_vars == << last, requests, answered, failure, matched, worked >>

clean_vars == << report, pass, before >>

print_vars == << print_stored, print_fresh, print_hashes >>

\* what the two scripts' main() leave alone
retry_vars == << retry_call, retry_sent, retry_waits, retry_end, retry_ret >>

aside_vars == << print_vars, retry_vars >>

vars == << text_vars, file_vars, run_vars, hist_vars, clean_vars, aside_vars >>

\* the request counters saturate here
MaxCount == 2

NoPayload == Payload(<< >>)

NoCall == [ text |-> << >>, lang |-> "", ret |-> << >>, raised |-> FALSE,
            asked |-> FALSE ]

\* the counters main() of clean_i18n_db.py starts with
NoReport ==
    [ removed_global |-> 0, removed_pages |-> 0, resets_total |-> 0,
      removed_texts |-> 0, removed_legacy_nodes |-> 0, legacy_resets |-> 0 ]

FileOf(shape, t, p, g) == [ shape |-> shape, texts |-> t, pages |-> p, global |-> g ]

\* The store an earlier, complete run of main() left behind: DocA was the
\* global source and the page of every URL, and the Translator answered
\* Kontakty each time.
PriorAnswer == [ fails |-> 0, content |-> Kontakty ]

PriorGlobal ==
    build_nodes_with_translations(extract_global_nodes_from_html(DocA), << >>,
                                  "global", PriorAnswer)

PriorPage(u) ==
    build_nodes_with_translations(extract_page_nodes_from_html(DocA),
                                  PriorGlobal.texts, page_id(u), PriorAnswer)

PriorFile ==
    FileOf("ok", PriorPage(1).texts,
           [ u \in Urls |-> Payload(PriorPage(u).out) ],
           Payload(PriorGlobal.out))

\* the page_payload main() writes to PAGES_DIR / "<pid>.json"
PagePayload(u, nodes) == [ id |-> page_id(u), url |-> u, nodes |-> nodes ]

PriorPageFiles ==
    [ f \in { page_id(u) : u \in Urls } |->
        LET u == CHOOSE v \in Urls : page_id(v) = f
        IN  PagePayload(u, PriorPage(u).out) ]

PriorAnswered == PriorGlobal.answered \cup PriorPage(1).answered

\* LEGACY_DB as a run may find it: missing, not JSON, JSON but no dict, a
\* dict whose "texts" is no dict, or the store of an earlier run
InitialFiles ==
    { FileOf("absent", << >>, << >>, NoPayload),
      FileOf("unparseable", << >>, << >>, NoPayload),
      FileOf("nondict", << >>, << >>, NoPayload),
      FileOf("badtexts", << >>, << >>, NoPayload),
      PriorFile }

\* no content has been fingerprinted
PrintIdle ==
    /\ print_stored = [ runs |-> << >>, pid |-> "" ]
    /\ print_fresh = print_stored
    /\ print_hashes = [ stored |-> payload_hash(<< >>), fresh |-> payload_hash(<< >>) ]

\* no call is being retried
RetryIdle ==
    /\ retry_call = [ fn |-> "none", answers |-> << >> ]
    /\ retry_sent = 0
    /\ retry_waits = << >>
    /\ retry_end = "returned"
    /\ retry_ret = 0

\* the memory of a process that has not read anything yet
Fresh ==
    /\ cache_is_dict = TRUE
    /\ texts = << >>
    /\ global_payload = NoPayload
    /\ legacy_pages = << >>
    /\ index_pages = << >>
    /\ url_i = 0
    /\ scope = "global"
    /\ nodes_raw = << >>
    /\ node_i = 1
    /\ lang_i = 1
    /\ dst_map = << >>
    /\ out = << >>
    /\ last = NoCall
    /\ requests = << >>
    /\ answered = {}
    /\ failure = "none"
    /\ matched = {}
    /\ worked = {}

Init ==
    /\ Tabulated
    /\ legacy_file \in InitialFiles
    /\ global_file = IF legacy_file.shape = "ok"
                     THEN [ exists |-> TRUE, payload |-> legacy_file.global ]
                     ELSE [ exists |-> FALSE, payload |-> NoPayload ]
    /\ page_files = IF legacy_file.shape = "ok" THEN PriorPageFiles ELSE << >>
    /\ index_file = IF legacy_file.shape = "ok"
                    THEN [ exists |-> TRUE, pages |-> [ u \in Urls |-> page_id(u) ] ]
                    ELSE [ exists |-> FALSE, pages |-> << >> ]
    /\ pc = "load"
    /\ Fresh
    /\ report = NoReport
    /\ pass = 0
    /\ before = << >>
    /\ PrintIdle
    /\ RetryIdle

\* an uncaught exception ends main()
Raise(what) ==
    /\ pc' = "failed"
    /\ failure' = what

\* load_texts_cache(), called by main()
LoadCache ==
    /\ UNCHANGED << text_vars, clean_vars, aside_vars >>
    /\ pc = "load"
    /\ IF legacy_file.shape = "unparseable"
       THEN /\ Raise("load")
            /\ UNCHANGED << cache_is_dict, texts, answered >>
       ELSE /\ pc' = "fetch_global"
            /\ cache_is_dict' = (legacy_file.shape # "badtexts")
            /\ texts' = IF legacy_file.shape = "ok" THEN legacy_file.texts ELSE << >>
            /\ answered' = IF legacy_file.shape = "ok" THEN PriorAnswered ELSE {}
            /\ UNCHANGED failure
    /\ UNCHANGED << file_vars, global_payload, legacy_pages, index_pages, url_i,
                    scope, nodes_raw, node_i, lang_i, dst_map, out,
                    last, requests, matched, worked >>

\* build_nodes_with_translations is entered with these nodes
StartBuild(scope_id, raw) ==
    /\ pc' = "build"
    /\ scope' = scope_id
    /\ nodes_raw' = raw
    /\ node_i' = 1
    /\ lang_i' = 1
    /\ dst_map' = << >>
    /\ out' = << >>

\* main(): global_html = fetch_url_with_retry(GLOBAL_SOURCE_URL) and the
\* extraction of the global nodes
FetchGlobalOf(outcomes) ==
    /\ UNCHANGED << text_vars, clean_vars, aside_vars >>
    /\ pc = "fetch_global"
    /\ \E o \in outcomes :
          LET r == fetch_url_with_retry(o)
          IN  IF r.raised
              THEN /\ Raise("fetch")
                   /\ UNCHANGED << scope, nodes_raw, node_i, lang_i, dst_map, out >>
              ELSE /\ StartBuild("global", extract_global_nodes_from_html(r.doc))
                   /\ UNCHANGED failure
    /\ UNCHANGED << file_vars, cache_is_dict, texts, global_payload, legacy_pages,
                    index_pages, url_i, last, requests, answered, matched, worked >>

FetchGlobal == FetchGlobalOf(FetchOutcomes)

\* the fingerprint main() would store for these raw nodes
FreshHash(scope_id, raw) ==
    payload_hash([ i \in 1..Len(raw) |-> BuiltNode(scope_id, raw[i], << >>) ])

StoredHashMatches(u, raw) ==
    /\ legacy_file.shape = "ok"
    /\ u \in DOMAIN legacy_file.pages
    /\ legacy_file.pages[u].hash = FreshHash(page_id(u), raw)

\* main(): the head of the page loop, html = fetch_url_with_retry(url) and
\* the extraction of the page's nodes
FetchPageOf(outcomes) ==
    /\ UNCHANGED << text_vars, clean_vars, aside_vars >>
    /\ pc = "fetch_page"
    /\ url_i <= NumPages
    /\ \E o \in outcomes :
          LET r   == fetch_url_with_retry(o)
              raw == extract_page_nodes_from_html(r.doc)
          IN  IF r.raised
              THEN /\ Raise("fetch")
                   /\ UNCHANGED << scope, nodes_raw, node_i, lang_i, dst_map, out,
                                   matched >>
              ELSE /\ StartBuild(page_id(url_i), raw)
                   /\ matched' = IF StoredHashMatches(url_i, raw)
                                 THEN matched \cup {url_i} ELSE matched
                   /\ UNCHANGED failure
    /\ UNCHANGED << file_vars, cache_is_dict, texts, global_payload, legacy_pages,
                    index_pages, url_i, last, requests, answered, worked >>

FetchPage == FetchPageOf(FetchOutcomes)

\* a counter of `requests`, 0 when the pair was never asked for
Count(f, pair) == IF pair \in DOMAIN f THEN f[pair] ELSE 0

Saturate(n) == IF n > MaxCount THEN MaxCount ELSE n

\* the argument of the translate_cached call the build loop stands at
CurText == nodes_raw[node_i].source

CurLang == TARGET_LANGS[lang_i]

\* build_nodes_with_translations: one turn of `for lang in TARGET_LANGS`,
\* that is one translate_cached call, and after the last language the
\* out.append of the node
TranslateStep ==
    /\ UNCHANGED << text_vars, clean_vars, aside_vars >>
    /\ pc = "build"
    /\ node_i <= Len(nodes_raw)
    /\ CurLang # DEFAULT_LANG
    /\ worked' = IF scope = "global" THEN worked ELSE worked \cup {url_i}
    /\ IF ~cache_is_dict
       THEN \* texts.get(key) on a value that is no dict: AttributeError
            /\ Raise("texts")
            /\ UNCHANGED << texts, node_i, lang_i, dst_map, out, last, requests,
                            answered >>
       ELSE \E o \in Outcomes :
              LET r    == translate_cached(CurText, CurLang, texts, o)
                  pair == << normalize_spaces(CurText), CurLang >>
                  dm   == Put(dst_map, CurLang, r.ret)
              IN  /\ last' = [ text |-> CurText, lang |-> CurLang, ret |-> r.ret,
                               raised |-> r.raised, asked |-> r.requests > 0 ]
                  /\ requests' = IF r.requests = 0 THEN requests
                                 ELSE Put(requests, pair,
                                          Saturate(Count(requests, pair) + r.requests))
                  /\ answered' = IF r.answered THEN answered \cup {pair} ELSE answered
                  /\ texts' = r.texts
                  /\ IF r.raised
                     THEN /\ Raise("translate")
                          /\ UNCHANGED << node_i, lang_i, dst_map, out >>
                     ELSE /\ UNCHANGED << pc, failure >>
                          /\ IF lang_i < Len(TARGET_LANGS)
                             THEN /\ lang_i' = lang_i + 1
                                  /\ dst_map' = dm
                                  /\ UNCHANGED << node_i, out >>
                             ELSE /\ lang_i' = 1
                                  /\ dst_map' = << >>
                                  /\ node_i' = node_i + 1
                                  /\ out' = Append(out,
                                              BuiltNode(scope, nodes_raw[node_i], dm))
    /\ UNCHANGED << file_vars, cache_is_dict, global_payload, legacy_pages,
                    index_pages, url_i, scope, nodes_raw, matched >>

\* main(): global_payload, the write of GLOBAL_JSON, index_payload and
\* legacy_db, once the global nodes are built
SaveGlobal ==
    /\ UNCHANGED << text_vars, clean_vars, aside_vars >>
    /\ pc = "build"
    /\ scope = "global"
    /\ node_i > Len(nodes_raw)
    /\ global_payload' = Payload(out)
    /\ global_file' = [ exists |-> TRUE, payload |-> Payload(out) ]
    /\ index_pages' = << >>
    /\ legacy_pages' = << >>
    /\ url_i' = 1
    /\ pc' = "fetch_page"
    /\ UNCHANGED << legacy_file, page_files, index_file, cache_is_dict, texts,
                    scope, nodes_raw, node_i, lang_i, dst_map, out, hist_vars >>

\* main(): the tail of the page loop, from page_payload to the record in
\* legacy_db["pages"]
SavePage ==
    /\ UNCHANGED << text_vars, clean_vars, aside_vars >>
    /\ pc = "build"
    /\ scope # "global"
    /\ node_i > Len(nodes_raw)
    /\ page_files' = Put(page_files, page_id(url_i), PagePayload(url_i, out))
    /\ index_pages' = Put(index_pages, url_i, page_id(url_i))
    /\ legacy_pages' = Put(legacy_pages, url_i, Payload(out))
    /\ url_i' = url_i + 1
    /\ pc' = "fetch_page"
    /\ UNCHANGED << legacy_file, global_file, index_file, cache_is_dict, texts,
                    global_payload, scope, nodes_raw, node_i, lang_i, dst_map, out,
                    hist_vars >>

WRITE_LEGACY_DB == TRUE

\* main(): after the page loop, the writes of INDEX_JSON and LEGACY_DB
Finish ==
    /\ UNCHANGED << text_vars, clean_vars, aside_vars >>
    /\ pc = "fetch_page"
    /\ url_i > NumPages
    /\ index_file' = [ exists |-> TRUE, pages |-> index_pages ]
    /\ legacy_file' =
          IF WRITE_LEGACY_DB
          THEN FileOf(IF cache_is_dict THEN "ok" ELSE "badtexts", texts,
                      legacy_pages, global_payload)
          ELSE \* save_texts_cache({"texts": ...})
               FileOf(IF cache_is_dict THEN "ok" ELSE "badtexts", texts,
                      << >>, NoPayload)
    /\ pc' = "done"
    /\ UNCHANGED << global_file, page_files, cache_is_dict, texts, global_payload,
                    legacy_pages, index_pages, url_i, scope, nodes_raw, node_i,
                    lang_i, dst_map, out, hist_vars >>

Running == pc \in { "load", "fetch_global", "build", "fetch_page" }

\* the process is killed (a crash, a cancelled job): the files stay as they are
Interrupt ==
    /\ UNCHANGED << text_vars, clean_vars, aside_vars >>
    /\ Running
    /\ pc' = "interrupted"
    /\ UNCHANGED << file_vars, cache_is_dict, texts, global_payload, legacy_pages,
                    index_pages, url_i, scope, nodes_raw, node_i, lang_i, dst_map,
                    out, hist_vars >>

Next ==
    \/ LoadCache
    \/ FetchGlobal
    \/ TranslateStep
    \/ SaveGlobal
    \/ FetchPage
    \/ SavePage
    \/ Finish
    \/ Interrupt

Spec == Init /\ [][Next]_vars

(***************************************************************************)
(* translate_web.py: main() started without a store, on a site whose       *)
(* pages repeat a text at several addresses.                               *)
(***************************************************************************)
\* every fetch answers at once: the last URL with one of the pages that
\* repeat a text, the global source and the URLs before it with a page
\* that holds nothing to translate
KeyOutcomes(u) ==
    [ fails : {0}, doc : IF u = NumPages THEN KeyDocs ELSE { DocBlank } ]

InitKeys ==
    /\ Init
    /\ legacy_file.shape = "absent"

FetchKeyGlobal == FetchGlobalOf(KeyOutcomes(0))

FetchKeyPage == FetchPageOf(KeyOutcomes(url_i))

NextKeys ==
    \/ LoadCache
    \/ FetchKeyGlobal
    \/ TranslateStep
    \/ SaveGlobal
    \/ FetchKeyPage
    \/ SavePage
    \/ Finish

SpecKeys == InitKeys /\ [][NextKeys]_vars

(***************************************************************************)
(* translate_web.py: the fingerprint main() stores with the nodes of a     *)
(* page, made of the page as it was and of the page after an edit.         *)
(***************************************************************************)
\* the longest content, in text runs
MaxRuns == 2

\* the text runs an edit can put into the content: two list items, a second
\* run of the first item, and the first item reading the spelled-out line
PrintRuns ==
    { Run(1, "li", Domu, FALSE), Run(2, "li", Kontakt, FALSE),
      Run(2, "li", Domu, FALSE), Run(1, "li", Spelled, FALSE) }

\* the ids nearest_parent_id can find for the content root
PrintPids == { "snippet--content", "content" }

RunLists == UNION { [ 1..n -> PrintRuns ] : n \in 0..MaxRuns }

\* the page of URL 1 with these runs under its content root
PrintDoc(c) ==
    [ title |-> EmptyText, title_id |-> FALSE, nav |-> << >>, submenu |-> << >>,
      footer |-> << >>, content |-> c.runs, content_pid |-> c.pid ]

\* page_nodes_raw of main() for that page
PrintNodes(c) == extract_page_nodes_from_html(PrintDoc(c))

\* the "hash" main() puts into legacy_db["pages"][url] for that page
Fingerprint(c) == FreshHash(page_id(1), PrintNodes(c))

InitPrint ==
    /\ Tabulated
    /\ legacy_file = FileOf("absent", << >>, << >>, NoPayload)
    /\ global_file = [ exists |-> FALSE, payload |-> NoPayload ]
    /\ page_files = << >>
    /\ index_file = [ exists |-> FALSE, pages |-> << >> ]
    /\ pc = "load"
    /\ Fresh
    /\ report = NoReport
    /\ pass = 0
    /\ before = << >>
    /\ \E r \in RunLists, p \in PrintPids :
          /\ print_stored = [ runs |-> r, pid |-> p ]
          /\ print_fresh = print_stored
          /\ \E h \in { Fingerprint([ runs |-> r, pid |-> p ]) } :
                print_hashes = [ stored |-> h, fresh |-> h ]
    /\ RetryIdle

\* the page is fetched again after the edit that made its content c
Refetch(c) ==
    /\ print_fresh' = c
    /\ print_hashes' = [ print_hashes EXCEPT !.fresh = Fingerprint(c) ]
    /\ UNCHANGED << print_stored, text_vars, file_vars, run_vars, hist_vars,
                    clean_vars, retry_vars >>

\* the text of one run is changed
EditText ==
    \E i \in 1..Len(print_fresh.runs), r \in PrintRuns :
       /\ r.txt # print_fresh.runs[i].txt
       /\ Refetch([ print_fresh EXCEPT !.runs[i].txt = r.txt ])

\* a run is inserted
InsertRun ==
    /\ Len(print_fresh.runs) < MaxRuns
    /\ \E i \in 0..Len(print_fresh.runs), r \in PrintRuns :
          Refetch([ print_fresh EXCEPT
                      !.runs = SubSeq(@, 1, i) \o << r >> \o SubSeq(@, i + 1, Len(@)) ])

\* a run is deleted
DeleteRun ==
    \E i \in 1..Len(print_fresh.runs) :
       Refetch([ print_fresh EXCEPT
                   !.runs = SubSeq(@, 1, i - 1) \o SubSeq(@, i + 1, Len(@)) ])

\* two neighbouring runs change places
SwapRuns ==
    \E i \in 1..(Len(print_fresh.runs) - 1) :
       Refetch([ print_fresh EXCEPT
                   !.runs = [ @ EXCEPT ![i] = print_fresh.runs[i + 1],
                                       ![i + 1] = print_fresh.runs[i] ] ])

\* the content root gets another id
MoveRoot ==
    \E p \in PrintPids \ { print_fresh.pid } :
       Refetch([ print_fresh EXCEPT !.pid = p ])

NextPrint ==
    \/ EditText
    \/ InsertRun
    \/ DeleteRun
    \/ SwapRuns
    \/ MoveRoot

SpecPrint == InitPrint /\ [][NextPrint]_vars

(***************************************************************************)
(* translate_web.py: the two retry loops, attempt by attempt.              *)
(***************************************************************************)
\* What requests.get can come back with: 0 stands for an exception (a
\* timeout, a refused connection), any other number is r.status_code.
FetchAnswers == { 0, 200, 204, 404, 429, 503 }

\* What client.chat.completions.create can come back with: 0 stands for
\* an exception, 200 for a completion.
TranslateAnswers == { 0, 200 }

\* the default of fetch_url_with_retry's delay, 5.0 s, in tenths of a second
delay == 50

\* the factor of time.sleep(1.2 * attempt) in translate_text, in tenths
backoff == 12

\* r.raise_for_status() raises for the statuses from 400 on
raise_for_status(status) == status >= 400

RetryRest == << text_vars, file_vars, run_vars, hist_vars, clean_vars, print_vars >>

InitRetry ==
    /\ Tabulated
    /\ legacy_file = FileOf("absent", << >>, << >>, NoPayload)
    /\ global_file = [ exists |-> FALSE, payload |-> NoPayload ]
    /\ page_files = << >>
    /\ index_file = [ exists |-> FALSE, pages |-> << >> ]
    /\ pc = "load"
    /\ Fresh
    /\ report = NoReport
    /\ pass = 0
    /\ before = << >>
    /\ PrintIdle
    /\ \/ \E a \in [ 1..retries -> FetchAnswers ] :
             retry_call = [ fn |-> "fetch", answers |-> a ]
       \/ \E a \in [ 1..max_retries -> TranslateAnswers ] :
             retry_call = [ fn |-> "translate", answers |-> a ]
    /\ retry_sent = 0
    /\ retry_waits = << >>
    /\ retry_end = "running"
    /\ retry_ret = 0

\* fetch_url_with_retry: one turn of `for i in range(retries)`
FetchAttempt ==
    /\ retry_call.fn = "fetch"
    /\ retry_end = "running"
    /\ retry_sent < retries
    /\ LET i      == retry_sent
           status == retry_call.answers[i + 1]
       IN  /\ retry_sent' = retry_sent + 1
           /\ IF status = 200
              THEN \* return r.text
                   /\ retry_end' = "returned"
                   /\ retry_ret' = i + 1
                   /\ UNCHANGED retry_waits
              ELSE /\ UNCHANGED << retry_end, retry_ret >>
                   /\ retry_waits' =
                         Append(retry_waits,
                                IF status = 0 THEN delay * (i + 1)         \* except
                                ELSE IF status = 429 THEN delay * (i + 1)  \* elif
                                ELSE IF raise_for_status(status)
                                THEN delay * (i + 1)                       \* except
                                ELSE 0)              \* the turn ends, no sleep
    /\ UNCHANGED << retry_call, RetryRest >>

\* fetch_url_with_retry: raise RuntimeError after the loop
FetchGiveUp ==
    /\ retry_call.fn = "fetch"
    /\ retry_end = "running"
    /\ retry_sent = retries
    /\ retry_end' = "raised"
    /\ UNCHANGED << retry_call, retry_sent, retry_waits, retry_ret, RetryRest >>

\* translate_text: one turn of `for attempt in range(1, max_retries + 1)`
TranslateAttempt ==
    /\ retry_call.fn = "translate"
    /\ retry_end = "running"
    /\ retry_sent < max_retries
    /\ LET attempt == retry_sent + 1
       IN  /\ retry_sent' = attempt
           /\ IF retry_call.answers[attempt] = 200
              THEN /\ retry_end' = "returned"
                   /\ retry_ret' = attempt
                   /\ UNCHANGED retry_waits
              ELSE /\ UNCHANGED << retry_end, retry_ret >>
                   /\ retry_waits' = Append(retry_waits, backoff * attempt)
    /\ UNCHANGED << retry_call, RetryRest >>

\* translate_text: raise RuntimeError after the loop
TranslateGiveUp ==
    /\ retry_call.fn = "translate"
    /\ retry_end = "running"
    /\ retry_sent = max_retries
    /\ retry_end' = "raised"
    /\ UNCHANGED << retry_call, retry_sent, retry_waits, retry_ret, RetryRest >>

NextRetry ==
    \/ FetchAttempt
    \/ FetchGiveUp
    \/ TranslateAttempt
    \/ TranslateGiveUp

SpecRetry == InitRetry /\ [][NextRetry]_vars

(***************************************************************************)
(* clean_i18n_db.py: main(), run on the files translate_web.py left.       *)
(***************************************************************************)
\* the sources of the stores the cleanup is run on
CleanSources == { TikTok, Source20, Source21 }

\* what the Translator had answered, by language
CleanReplies ==
    [ sk |-> { EmptyText, TikTok, TikTokApp, Apology, Reply60, Reply59 },
      en |-> { Apology } ]

\* the dst maps over the languages ls, a language being absent or answered
DstMaps(ls) ==
    UNION { { m \in [ d -> UNION { CleanReplies[l] : l \in d } ] :
                \A l \in d : m[l] \in CleanReplies[l] } : d \in SUBSET ls }

\* the node list translate_web.py builds for one text run with source src
\* under scope_id, its translations being dst
StoredNodes(scope_id, src, dst) ==
    LET raw == extract_textnodes_from_root(<< Run(1, "span", src, FALSE) >>,
                                           ".component--core-footer", "")
    IN  [ i \in 1..Len(raw) |-> BuiltNode(scope_id, raw[i], dst) ]

\* cache["texts"] after translate_cached stored dst for src
StoredTexts(src, dst) ==
    IF is_translatable(src)
    THEN Put(<< >>, sha(src), [ src |-> src, dst |-> dst ])
    ELSE << >>

\* the files clean_i18n_db.py reads and writes
Files == [ global |-> global_file, pages |-> page_files, legacy |-> legacy_file ]

\* One text stands in the navigation and in the page, so that the global
\* record, the page and the cache each hold their own copy of it and of
\* what the Translator answered at the time.
InitClean ==
    /\ Tabulated
    /\ \E s \in CleanSources :
          /\ \E m \in DstMaps({"sk"}) :
                global_file = [ exists |-> TRUE,
                                payload |-> Payload(StoredNodes("global", s, m)) ]
          /\ \E m \in DstMaps({"sk"}) :
                page_files = Put(<< >>, page_id(1),
                                 PagePayload(1, StoredNodes(page_id(1), s, m)))
          /\ \/ legacy_file = FileOf("absent", << >>, << >>, NoPayload)
             \/ \E m \in DstMaps({"sk", "en"}) :
                   legacy_file =
                      FileOf("ok", StoredTexts(s, m),
                             Put(<< >>, 1, Payload(page_files[page_id(1)].nodes)),
                             global_file.payload)
    /\ index_file = [ exists |-> TRUE, pages |-> Put(<< >>, 1, page_id(1)) ]
    /\ pc = "clean_global"
    /\ Fresh
    /\ report = NoReport
    /\ pass = 1
    /\ before = << Files >>
    /\ PrintIdle
    /\ RetryIdle

\* main(): `# --- 1) GLOBAL ---`
CleanGlobal ==
    /\ pc = "clean_global"
    /\ IF global_file.exists
       THEN LET r == clean_nodes_payload(global_file.payload)
            IN  /\ global_file' = [ global_file EXCEPT !.payload = r.payload ]
                /\ report' = [ report EXCEPT
                                 !.removed_global = @ + r.removed,
                                 !.resets_total = @ + r.resets ]
       ELSE UNCHANGED << global_file, report >>
    /\ pc' = "clean_pages"
    /\ UNCHANGED << legacy_file, page_files, index_file, cache_is_dict, texts,
                    global_payload, legacy_pages, index_pages, url_i, scope,
                    nodes_raw, node_i, lang_i, dst_map, out, hist_vars, pass,
                    before, text_vars, aside_vars >>

\* main(): `for pf in page_files` on the files under keys, a file being
\* written only when an entry of it was removed or reset:
\* [files, removed, resets]
RECURSIVE CleanPageFiles(_, _)
CleanPageFiles(files, keys) ==
    IF keys = {} THEN [ files |-> files, removed |-> 0, resets |-> 0 ]
    ELSE LET pf   == CHOOSE k \in keys : TRUE
             c    == clean_nodes_payload(files[pf])
             rest == CleanPageFiles(files, keys \ {pf})
         IN  [ files   |-> IF c.removed > 0 \/ c.resets > 0
                           THEN [ rest.files EXCEPT ![pf] = c.payload ]
                           ELSE rest.files,
               removed |-> c.removed + rest.removed,
               resets  |-> c.resets + rest.resets ]

\* main(): `# --- 2) PAGES split ---`
CleanPages ==
    /\ pc = "clean_pages"
    /\ LET r == CleanPageFiles(page_files, DOMAIN page_files)
       IN  /\ page_files' = r.files
           /\ report' = [ report EXCEPT !.removed_pages = @ + r.removed,
                                        !.resets_total = @ + r.resets ]
    /\ pc' = "clean_legacy"
    /\ UNCHANGED << legacy_file, global_file, index_file, cache_is_dict, texts,
                    global_payload, legacy_pages, index_pages, url_i, scope,
                    nodes_raw, node_i, lang_i, dst_map, out, hist_vars, pass,
                    before, text_vars, aside_vars >>

\* main(): `# --- 3) LEGACY DB (optional) ---` and the summary
CleanLegacy ==
    /\ pc = "clean_legacy"
    /\ IF legacy_file.shape = "ok"
       THEN LET r  == clean_legacy_db([ texts  |-> legacy_file.texts,
                                        pages  |-> legacy_file.pages,
                                        global |-> legacy_file.global ])
            IN  /\ legacy_file' = FileOf("ok", r.db.texts, r.db.pages, r.db.global)
                /\ report' = [ report EXCEPT
                                 !.removed_texts = @ + r.removed_text_entries,
                                 !.removed_legacy_nodes =
                                     @ + r.removed_page_node_entries,
                                 !.legacy_resets = @ + r.forced_resets ]
       ELSE UNCHANGED << legacy_file, report >>
    /\ pc' = "cleaned"
    /\ UNCHANGED << global_file, page_files, index_file, cache_is_dict, texts,
                    global_payload, legacy_pages, index_pages, url_i, scope,
                    nodes_raw, node_i, lang_i, dst_map, out, hist_vars, pass,
                    before, text_vars, aside_vars >>

\* the number of times the script is run in a row
MaxPasses == 2

\* the script is started again, no run of translate_web.py in between
Rerun ==
    /\ pc = "cleaned"
    /\ pass < MaxPasses
    /\ pc' = "clean_global"
    /\ pass' = pass + 1
    /\ report' = NoReport
    /\ before' = Append(before, Files)
    /\ UNCHANGED << file_vars, cache_is_dict, texts, global_payload, legacy_pages,
                    index_pages, url_i, scope, nodes_raw, node_i, lang_i, dst_map,
                    out, hist_vars, text_vars, aside_vars >>

NextClean ==
    \/ CleanGlobal
    \/ CleanPages
    \/ CleanLegacy
    \/ Rerun

SpecClean == InitClean /\ [][NextClean]_vars


(***************************************************************************)
(* The claims about translate_web.py, checked under Spec.                  *)
(***************************************************************************)
Langs == { TARGET_LANGS[l] : l \in 1..Len(TARGET_LANGS) }

\* the normalised texts a store of the model can hold
StoreTexts == { normal[t] : t \in SampleTexts }

\* translations[lang] of the entry of t is present
Present(t, lang) ==
    /\ sha(t) \in DOMAIN texts
    /\ lang \in DOMAIN texts[sha(t)].dst

\* a step of the build loop that is a translate_cached call
IsTranslateCall ==
    /\ pc = "build"
    /\ node_i <= Len(nodes_raw)
    /\ cache_is_dict
    /\ pc' # "interrupted"

C1_OrigStep ==
    /\ \A pair \in DOMAIN requests' : requests'[pair] <= 1
    /\ (IsTranslateCall /\ Present(CurText, CurLang))
          => /\ ~last'.asked
             /\ last'.ret = texts[sha(CurText)].dst[CurLang]

\* C1 as stated: the Translator is invoked at most once per (text, lang)
\* pair, and once a call for the pair has completed every later call gives
\* the stored value back without invoking it, whatever was stored.
C1_Orig == [][C1_OrigStep]_vars

\* C1, amended: once a translate_cached call for (t, lang) has stored a
\* non-empty value, every later call for (t, lang) returns that value and
\* makes no Translator request; the store stays as it is.
C1_CachedValueReused ==
    [][ (IsTranslateCall /\ Present(CurText, CurLang)
            /\ Len(texts[sha(CurText)].dst[CurLang]) > 0)
          => /\ ~last'.asked
             /\ ~last'.raised
             /\ last'.ret = texts[sha(CurText)].dst[CurLang]
             /\ requests' = requests
             /\ texts' = texts ]_vars

\* a call was served from the store for a pair the Translator was asked
\* for earlier in the run
C1_Witness ==
    /\ pc = "build"
    /\ ~last.asked
    /\ Len(last.ret) > 0
    /\ Count(requests, << last.text, last.lang >>) >= 1

\* C2 as stated: translations[lang] is present if and only if the
\* Classifier accepts the source text and a Translator call for the pair
\* succeeded.
C2_Orig ==
    cache_is_dict =>
        \A t \in StoreTexts, lang \in Langs :
            Present(t, lang) <=> (is_translatable(t) /\ << t, lang >> \in answered)

\* C2, amended: translations[lang] is present only if the Classifier
\* accepts the source text and either a Translator call for the pair
\* succeeded or the text is longer than MAX_TEXT_LEN_TO_TRANSLATE, in which
\* case the source text itself is stored and the Translator is never asked;
\* and it is present whenever a Translator call for the pair succeeded.
C2_PresentIffReturned ==
    cache_is_dict =>
        \A t \in StoreTexts, lang \in Langs :
            /\ Present(t, lang) =>
                  /\ is_translatable(t)
                  /\ \/ << t, lang >> \in answered
                     \/ /\ Len(t) > MAX_TEXT_LEN_TO_TRANSLATE
                        /\ texts[sha(t)].dst[lang] = t
            /\ << t, lang >> \in answered => Present(t, lang)
            /\ Len(t) > MAX_TEXT_LEN_TO_TRANSLATE =>
                  /\ << t, lang >> \notin answered
                  /\ Count(requests, << t, lang >>) = 0

\* the store holds a long text passed through unasked beside a translation
\* the Translator gave
C2_Witness ==
    /\ cache_is_dict
    /\ Present(LongText, "sk")
    /\ texts[sha(LongText)].dst["sk"] = LongText
    /\ Present(Kontakt, "sk")
    /\ << Kontakt, "sk" >> \in answered
    /\ Count(requests, << Kontakt, "sk" >>) >= 1

\* C3 as stated: a page whose fresh fingerprint equals the stored one is
\* skipped: no translate_cached call is made for it and its record is not
\* rebuilt.
C3_Orig ==
    \A u \in matched : u \notin worked /\ u \notin DOMAIN legacy_pages

\* the pages completed in this run are in the files: their records and
\* the translation entries of their nodes
PagePersisted(u) ==
    /\ page_id(u) \in DOMAIN page_files
    /\ page_files[page_id(u)].nodes = legacy_pages[u].nodes
    /\ legacy_file.shape = "ok"
    /\ \A i \in 1..Len(legacy_pages[u].nodes) :
          LET n == legacy_pages[u].nodes[i]
          IN  /\ sha(n.source) \in DOMAIN legacy_file.texts
              /\ \A lang \in DOMAIN n.dst :
                    /\ lang \in DOMAIN legacy_file.texts[sha(n.source)].dst
                    /\ legacy_file.texts[sha(n.source)].dst[lang] = n.dst[lang]

\* C4 as stated: when a run is interrupted, the files hold the work of
\* every page completed before.
C4_Orig ==
    pc = "interrupted" => \A u \in DOMAIN legacy_pages : PagePersisted(u)

\* C5 as stated: a translation or a fetch that fails after its retries
\* does not end the run.
C5_Orig ==
    (failure = "translate" \/ failure = "fetch") => pc # "failed"

\* C10 as stated: a LEGACY_DB that is present but malformed is loaded as
\* the empty store, and the run goes on.
C10_Orig ==
    (/\ legacy_file.shape \in { "unparseable", "nondict", "badtexts" }
     /\ pc \notin { "load", "done" })
        => /\ failure \notin { "load", "texts" }
           /\ cache_is_dict
           /\ pc = "fetch_global" => texts = << >>

(***************************************************************************)
(* The claims about clean_i18n_db.py, checked under SpecClean.             *)
(***************************************************************************)
\* the containers of translated text
Groups == { "global.json", "pages", "texts", "legacy nodes" }

Entry(src, dst) == [ src |-> src, dst |-> dst ]

\* the (source, dst map) pairs the files f hold in the container g, by place
Entries(f, g) ==
    CASE g = "global.json" ->
           IF f.global.exists
           THEN [ i \in 1..Len(f.global.payload.nodes) |->
                    Entry(f.global.payload.nodes[i].source,
                          f.global.payload.nodes[i].dst) ]
           ELSE << >>
      [] g = "pages" ->
           [ k \in UNION { { << pf, i >> : i \in 1..Len(f.pages[pf].nodes) } :
                           pf \in DOMAIN f.pages } |->
               Entry(f.pages[k[1]].nodes[k[2]].source, f.pages[k[1]].nodes[k[2]].dst) ]
      [] g = "texts" ->
           IF f.legacy.shape = "ok"
           THEN [ k \in DOMAIN f.legacy.texts |->
                    Entry(f.legacy.texts[k].src, f.legacy.texts[k].dst) ]
           ELSE << >>
      [] g = "legacy nodes" ->
           IF f.legacy.shape = "ok"
           THEN [ k \in UNION { { << u, i >> :
                                    i \in 1..Len(f.legacy.pages[u].nodes) } :
                                  u \in DOMAIN f.legacy.pages }
                        \cup { << 0, i >> : i \in 1..Len(f.legacy.global.nodes) } |->
                    IF k[1] = 0
                    THEN Entry(f.legacy.global.nodes[k[2]].source,
                               f.legacy.global.nodes[k[2]].dst)
                    ELSE Entry(f.legacy.pages[k[1]].nodes[k[2]].source,
                               f.legacy.pages[k[1]].nodes[k[2]].dst) ]
           ELSE << >>

\* what the running pass found and what is there now
Was(g) == Entries(before[pass], g)

Now(g) == Entries(Files, g)

\* the (place, language) pairs the pass found a translation at
Triples(g) ==
    UNION { { << k, l >> : l \in DOMAIN Was(g)[k].dst } : k \in DOMAIN Was(g) }

Src(g, x) == Was(g)[x[1]].src

Old(g, x) == Was(g)[x[1]].dst[x[2]]

Kept(g, x) == x[2] \in DOMAIN Now(g)[x[1]].dst

New(g, x) == Now(g)[x[1]].dst[x[2]]

\* the bad-output rule on a translation v of the source s
BadOutput(v, s) ==
    /\ Len(v) > 0
    /\ \/ \E i \in 1..Len(BAD_PHRASES) : Contains(Lower(v), BAD_PHRASES[i])
       \/ /\ Len(norm(s)) <= MAX_SRC_LEN_FOR_SANITY
          /\ Len(norm(v)) >= MIN_DST_LEN_SUSPICIOUS

Literal(s) == norm(s) \in NEVER_TRANSLATE_EXACT

\* the removals the pass reported for the container g
RemovedReported(g) ==
    CASE g = "global.json"  -> report.removed_global
      [] g = "pages"        -> report.removed_pages
      [] g = "texts"        -> report.removed_texts
      [] g = "legacy nodes" -> report.removed_legacy_nodes

\* the number of triples of the container g that satisfy P
Tally(g, P(_, _)) == Cardinality({ x \in Triples(g) : P(g, x) })

DiffersFromLiteral(g, x) == Literal(Src(g, x)) /\ Old(g, x) # Src(g, x)

\* the translations the code resets: the normalised translation is not
\* empty and differs from the literal
NonEmptyDiffers(g, x) ==
    /\ Literal(Src(g, x))
    /\ Len(norm(Old(g, x))) > 0
    /\ norm(Old(g, x)) # norm(Src(g, x))

\* C7 as stated: a translation that differs from its never-translate
\* source is overwritten with the normalised source, stays present and is
\* counted as one forced reset; no other translation is reset.
C7_Orig ==
    pc = "cleaned" =>
       /\ \A g \in Groups : \A x \in Triples(g) :
             /\ DiffersFromLiteral(g, x)
                   => Kept(g, x) /\ New(g, x) = norm(Src(g, x))
             /\ (~Literal(Src(g, x)) /\ Kept(g, x)) => New(g, x) = Old(g, x)
       /\ report.resets_total = Tally("global.json", DiffersFromLiteral) + Tally("pages", DiffersFromLiteral)
       /\ report.legacy_resets = Tally("texts", DiffersFromLiteral) + Tally("legacy nodes", DiffersFromLiteral)

\* C7 amended: a translation that is not empty after normalisation and
\* differs from its never-translate source is overwritten with the
\* normalised source, stays present and is counted as one forced reset;
\* no other translation is changed.
C7_NonEmptyReset ==
    pc = "cleaned" =>
       /\ \A g \in Groups : \A x \in Triples(g) :
             /\ NonEmptyDiffers(g, x)
                   => Kept(g, x) /\ New(g, x) = norm(Src(g, x))
             /\ (~NonEmptyDiffers(g, x) /\ Kept(g, x)) => New(g, x) = Old(g, x)
       /\ report.resets_total = Tally("global.json", NonEmptyDiffers) + Tally("pages", NonEmptyDiffers)
       /\ report.legacy_resets = Tally("texts", NonEmptyDiffers) + Tally("legacy nodes", NonEmptyDiffers)

\* a first pass has reset the wrong translation of TikTok in global.json
\* and the refusal stored for it in the cache
C7_Witness ==
    /\ pc = "cleaned"
    /\ pass = 1
    /\ report.resets_total >= 1
    /\ \E x \in Triples("global.json") :
          /\ Src("global.json", x) = TikTok
          /\ Old("global.json", x) = TikTokApp
          /\ Kept("global.json", x)
          /\ New("global.json", x) = TikTok
    /\ \E x \in Triples("texts") :
          /\ Old("texts", x) = Apology
          /\ Kept("texts", x)
          /\ New("texts", x) = TikTok

\* C8: a pass run directly after another leaves every file as it found it
\* and reports no removal and no forced reset.
C8_SecondPassIdle ==
    pass >= 2 => /\ Files = before[pass]
                 /\ report = NoReport

\* a second pass has ended after a first one that changed the files
C8_Witness ==
    /\ pass = 2
    /\ pc = "cleaned"
    /\ before[1] # before[2]
    /\ before[1].legacy.shape = "ok"

\* C9: after a pass no container holds a translation that is bad by the
\* rule, every non-empty translation of a never-translate source equals
\* the source, and a triple fares the same in whichever container it is.
C9_EveryContainer ==
    pc = "cleaned" =>
       /\ \A g \in Groups : \A k \in DOMAIN Now(g) :
             \A l \in DOMAIN Now(g)[k].dst :
                /\ ~BadOutput(Now(g)[k].dst[l], Now(g)[k].src)
                /\ (Literal(Now(g)[k].src) /\ Len(Now(g)[k].dst[l]) > 0)
                      => Now(g)[k].dst[l] = Now(g)[k].src
       /\ \A g \in Groups, h \in Groups :
             \A x \in Triples(g), y \in Triples(h) :
                (/\ Src(g, x) = Src(h, y)
                 /\ x[2] = y[2]
                 /\ Old(g, x) = Old(h, y))
                   => /\ Kept(g, x) <=> Kept(h, y)
                      /\ Kept(g, x) => New(g, x) = New(h, y)

\* a first pass found the refusal stored for TikTok in the cache, in the
\* page and in the global record, and reset all five copies
C9_Witness ==
    /\ pc = "cleaned"
    /\ pass = 1
    /\ legacy_file.shape = "ok"
    /\ \A g \in Groups :
          \E x \in Triples(g) :
             /\ Src(g, x) = TikTok
             /\ Old(g, x) = Apology
             /\ New(g, x) = TikTok
    /\ Cardinality(Triples("legacy nodes")) = 2

(***************************************************************************)
(* The claim about node keys and store entries, checked under SpecKeys.    *)
(***************************************************************************)
\* the address fields of a node
Address(n) ==
    << n.mode, n.attr, n.parentId, n.parent, n.selector, n.index, n.textIndex >>

NodeSet(nodes) == { nodes[i] : i \in 1..Len(nodes) }

\* the nodes of URL u: those built so far, those of its page file and
\* those of its record in legacy_db["pages"]
NodesOf(u) ==
    (IF pc \in { "build", "failed" } /\ scope # "global" /\ url_i = u
     THEN NodeSet(out) ELSE {})
    \cup (IF page_id(u) \in DOMAIN page_files
          THEN NodeSet(page_files[page_id(u)].nodes) ELSE {})
    \cup (IF u \in DOMAIN legacy_pages THEN NodeSet(legacy_pages[u].nodes) ELSE {})

\* within the scope of a URL, nodes of one text have one key exactly when
\* they have one address
KeysTellAddressesApart ==
    \A u \in Urls : \A m \in NodesOf(u), n \in NodesOf(u) :
       m.source = n.source => (m.key = n.key <=> Address(m) = Address(n))

\* the texts translate_cached was called for and returned
TextsSeen ==
    UNION { { n.source : n \in NodesOf(u) } : u \in Urls }
    \cup (IF pc \in { "build", "failed" } /\ node_i <= Len(nodes_raw) /\ lang_i > 1
          THEN { normalize_spaces(CurText) } ELSE {})

\* the store holds one entry for each text seen, under the digest of the
\* text, and no other entry
OneEntryPerText ==
    /\ \A k \in DOMAIN texts : k = sha(texts[k].src)
    /\ { texts[k].src : k \in DOMAIN texts }
          \in { TextsSeen,
                TextsSeen \cup (IF pc \in { "build", "failed" } /\ node_i <= Len(nodes_raw)
                                THEN { normalize_spaces(CurText) } ELSE {}) }

\* the page with the fragments Domů, Kontakt, Domů has been built
HomeBuilt ==
    /\ pc = "build"
    /\ scope # "global"
    /\ nodes_raw = extract_page_nodes_from_html(DocHome)
    /\ node_i > Len(nodes_raw)

\* three nodes with three keys, two entries
ThreeKeysTwoEntries ==
    HomeBuilt => /\ Len(out) = 3
                 /\ Cardinality({ out[i].key : i \in 1..Len(out) }) = 3
                 /\ Cardinality(DOMAIN texts) = 2

\* C11 as stated: within a scope, nodes of one text have the same key
\* exactly when they have the same address; the store holds one entry per
\* distinct text (three keys and two entries for Domů, Kontakt, Domů); and
\* the Translator is invoked at most once per (text, language).
C11_Orig ==
    /\ KeysTellAddressesApart
    /\ OneEntryPerText
    /\ ThreeKeysTwoEntries
    /\ \A pair \in DOMAIN requests : requests[pair] <= 1

\* C11 amended: the keys and the entries as stated; the Translator is not
\* invoked for a (text, language) whose stored translation is not empty,
\* and a call makes at most max_retries requests.
C11_KeysAndEntries ==
    /\ [](KeysTellAddressesApart /\ OneEntryPerText /\ ThreeKeysTwoEntries)
    /\ [][ IsTranslateCall =>
             IF CacheHit(texts, normalize_spaces(CurText), CurLang)
             THEN ~last'.asked /\ requests' = requests /\ texts' = texts
             ELSE Count(requests', << normalize_spaces(CurText), CurLang >>)
                     <= Saturate(Count(requests, << normalize_spaces(CurText), CurLang >>)
                                 + max_retries) ]_vars

\* the page is built: the second Domů was served from the store, the
\* three nodes have three keys and the store two entries
C11_Witness ==
    /\ HomeBuilt
    /\ Len(out) = 3
    /\ out[1].source = out[3].source
    /\ out[1].key # out[3].key
    /\ Cardinality(DOMAIN texts) = 2
    /\ ~last.asked
    /\ Count(requests, << Domu, "de" >>) = 1

(***************************************************************************)
(* The claim about the fingerprint, checked under SpecPrint.               *)
(***************************************************************************)
\* two node lists are the same element for element in (address, text)
SameNodes(a, b) ==
    /\ Len(a) = Len(b)
    /\ \A i \in 1..Len(a) : /\ Address(a[i]) = Address(b[i])
                            /\ a[i].source = b[i].source

\* the nodes main() builds for the content c of the page of URL 1
PrintBuilt(c) ==
    [ i \in 1..Len(PrintNodes(c)) |-> BuiltNode(page_id(1), PrintNodes(c)[i], << >>) ]

\* C12: the fingerprints of two node lists of one scope are equal if and
\* only if the lists are the same element for element in (address, text);
\* an edit of a text, an insertion, a deletion or a swap that changes the
\* list changes the fingerprint.
C12_PrintsEqualIffSame ==
    (print_hashes.stored = print_hashes.fresh)
       <=> SameNodes(PrintNodes(print_stored), PrintNodes(print_fresh))

\* The stored page had the items Domů and Kontakt; now it has one item
\* whose text spells the first line, "||" and the second line.  The two
\* joined strings differ in the key of the first line and nowhere else,
\* and the fingerprints differ.
C12_Witness ==
    /\ print_stored = [ runs |-> << Run(1, "li", Domu, FALSE),
                                    Run(2, "li", Kontakt, FALSE) >>,
                        pid  |-> "snippet--content" ]
    /\ print_fresh = [ runs |-> << Run(1, "li", Spelled, FALSE) >>,
                       pid  |-> "snippet--content" ]
    /\ Len(PrintNodes(print_stored)) = 2
    /\ Len(PrintNodes(print_fresh)) = 1
    /\ Tail(JoinFrom(PrintBuilt(print_stored), 1))
          = Tail(JoinFrom(PrintBuilt(print_fresh), 1))
    /\ Head(JoinFrom(PrintBuilt(print_stored), 1))
          # Head(JoinFrom(PrintBuilt(print_fresh), 1))
    /\ print_hashes.stored # print_hashes.fresh

(***************************************************************************)
(* The claims about the retry loops, checked under SpecRetry.              *)
(***************************************************************************)
\* what the k-th attempt of the call was answered
Answer(k) == retry_call.answers[k]

\* a 4xx status other than 429
Permanent(status) == status \in 400..499 /\ status # 429

\* a timeout, a 5xx status or 429
Transient(status) == status = 0 \/ status \in 500..599 \/ status = 429

\* C13 as stated: after a 4xx answer other than 429 fetch_url_with_retry
\* makes no further request and does not wait before it fails; every
\* attempt that was followed by another one had failed transiently.
C13_Orig ==
    retry_call.fn = "fetch" =>
       \A k \in 1..retry_sent :
          /\ Permanent(Answer(k)) => (retry_sent = k /\ Len(retry_waits) < k)
          /\ k < retry_sent => Transient(Answer(k))

\* the most requests the running call may make
Attempts == IF retry_call.fn = "fetch" THEN retries ELSE max_retries

\* the wait after the first attempt
FirstWait == IF retry_call.fn = "fetch" THEN delay ELSE backoff

BoundedRequests == retry_sent <= Attempts

\* a running call can take its next step, so it ends within Attempts turns
NeverStuck == retry_end = "running" => ENABLED NextRetry

FirstSuccessOrFailure ==
    /\ retry_end = "returned" =>
          /\ retry_ret = retry_sent
          /\ Answer(retry_ret) = 200
          /\ \A k \in 1..(retry_ret - 1) : Answer(k) # 200
    /\ retry_end = "raised" =>
          /\ retry_sent = Attempts
          /\ \A k \in 1..retry_sent : Answer(k) # 200

\* the wait between the k-th attempt and the next is k times the first wait
LinearWaits ==
    \A k \in 1..(retry_sent - 1) : retry_waits[k] = FirstWait * k

\* C14 as stated: a call makes at most retries (5) or max_retries (3)
\* requests, ends with the result of the first successful attempt or with
\* a failure after the last one, and waits k times the first wait after
\* the k-th attempt, a 429 answer included.
C14_Orig ==
    retry_call.fn # "none" =>
       /\ BoundedRequests
       /\ NeverStuck
       /\ FirstSuccessOrFailure
       /\ LinearWaits

====
